---- MODULE Spec2Model ----
(***************************************************************************)
(* The debounce consumer of emme7-bot: producers append messages to the    *)
(* Redis sorted set "webhook" (redis_crud.py), the consumer main loop      *)
(* `processer` (consumer.py) scans it through RedisService.time_search     *)
(* (redis_services.py), submits one task per quiet conversation key to a   *)
(* thread pool, reaps the finished tasks and evicts keys that keep failing.*)
(* Each task posts its batch to the API, where ChatBot.run (chatbot.py)    *)
(* stores the messages in the chat history and decides between the LLM     *)
(* reply, the human-cooldown advisory and the test response.               *)
(***************************************************************************)
EXTENDS Integers, Sequences, FiniteSets, TLC

\* ---------------------------------------------------------------- bounds
MaxTime == 3          \* the clock runs from 0 to MaxTime
MaxAppends == 3       \* total number of zadd calls by producers
MaxBatch == 2         \* longest list kept under one key of messages_dict
MaxRuns == 2          \* number of ChatBot.run calls on the conversation

\* ------------------------------------------------------- program settings
\* processer(workers): size of the thread pool and cap on len(tasks).
workers == 2
\* CONSUMER_REDIS_TIME_INT: int(CONSUMER_REDIS_TIME) from the environment
\* (60 when unset); here the environment sets it to one clock unit.
CONSUMER_REDIS_TIME_INT == 1
\* `tries[composite_key] > 3`
MaxTries == 3
\* `tries[composite_key] = 4` in the success branch
ResetValue == 4

Phones == {1, 2}
Stores == {1, 2}
Contents == {1, 2}

\* InternalMessageModel, reduced to the fields that tell messages apart.
\* Three conversations send messages: phone 1 writes to both stores (twice
\* to store 1), phone 2 to store 1.
Messages ==
    {msg \in [phone : Phones, store_phone : Stores, content : Contents] :
        /\ msg.phone = 2 => msg.store_phone = 1
        /\ msg.content = 2 => (msg.phone = 1 /\ msg.store_phone = 1)}

\* Bytes stored in Redis that json.loads rejects (b"invalid json").
Malformed == 0

\* json.dumps(data.model_dump()): the member stored in the sorted set.  The
\* codes are ordered like the JSON texts (phone, then store_phone, then the
\* remaining fields), which is the order Redis uses among equal scores.
dumps(msg) ==
    (msg.phone - 1) * (Cardinality(Stores) * Cardinality(Contents))
    + (msg.store_phone - 1) * Cardinality(Contents) + msg.content

Members == {dumps(msg) : msg \in Messages}

\* InternalMessageModel(**json.loads(raw_bytes.decode("utf-8")))
loads(m) == CHOOSE msg \in Messages : dumps(msg) = m

\* composite_key = f"{phone}_{store_phone}"
composite_key(msg) == <<msg.phone, msg.store_phone>>

Keys == {composite_key(msg) : msg \in Messages}

VARIABLES
    now,            \* the wall clock (datetime.now)
    webhook,        \* the Redis sorted set "webhook": member -> score
    appends,        \* number of zadd calls so far
    handler,        \* RedisDatabase has its `handler` attribute
    pc,             \* position of processer
    err,            \* the exception that ended processer, if any
    snapshot,       \* result of retrieve_messages in the current cycle
    pool,           \* futures of the ThreadPoolExecutor: id -> future
    tasks,          \* dict tasks, in insertion order: <<[key, fut]>>
    tries,          \* dict tries: key -> count
    messages_dict,  \* dict messages_dict: key -> list of message dicts
    done_tasks,     \* list done_tasks of the current cycle (unused after
                    \* line 191, emptied here at the end of the cycle)
    failed_runs,    \* history: failed processor runs per key since its
                    \* last success or eviction
    evicted         \* history: keys the latest eviction loop evicted

\* The chat of one conversation, as ChatBot.run sees it.
VARIABLES
    history,        \* rows of chats_messages of the chat
    utcnow,         \* datetime.now(timezone.utc), in seconds
    delivered,      \* `data` of the latest ChatBot.run
    out,            \* what the latest ChatBot.run did and returned
    runs            \* number of ChatBot.run calls so far

consumerVars == <<now, webhook, appends, handler, pc, err, snapshot, pool,
                  tasks, tries, messages_dict, done_tasks, failed_runs, evicted>>

chatVars == <<history, utcnow, delivered, out, runs>>

\* One call of RedisService.filter_messages on its own.
VARIABLES
    entries,        \* the (bytes, score) list group_messages is given
    cutoff,         \* the argument `cut`
    filtered        \* filtered_messages, once the call returned

filterVars == <<entries, cutoff, filtered>>

vars == <<consumerVars, chatVars, filterVars>>

\* ------------------------------------------------------------ dictionaries
Put(d, k, v) == [x \in DOMAIN d \cup {k} |-> IF x = k THEN v ELSE d[x]]
Pop(d, k) == [x \in DOMAIN d \ {k} |-> d[x]]
Get(d, k, default) == IF k \in DOMAIN d THEN d[k] ELSE default

EmptyDict == [x \in {} |-> 0]

SeqRange(s) == {s[i] : i \in 1..Len(s)}

\* ------------------------------------------------- redis_crud.RedisDatabase
\* handler.zadd("webhook", {member: score}): a member already in the set
\* keeps its single entry and takes the new score.
zadd(z, member, score) == Put(z, member, score)

\* save(data, datetime_now)
save(z, data, datetime_now) == zadd(z, dumps(data), datetime_now)

RECURSIVE ZRangeOf(_, _)
ZRangeOf(z, S) ==
    IF S = {} THEN <<>>
    ELSE LET m == CHOOSE x \in S : \A y \in S :
                      z[x] < z[y] \/ (z[x] = z[y] /\ x <= y)
         IN <<<<m, z[m]>>>> \o ZRangeOf(z, S \ {m})

\* handler.zrange("webhook", 0, -1, withscores=True): every entry as
\* (member, score), by ascending score, equal scores by member.
retrieve_messages(z) == ZRangeOf(z, DOMAIN z)

\* A zrem whose argument never equals the stored bytes.
delete_message_NoMatch(z, message) == z

\* handler.zrem("webhook", json.dumps(message)); absent members are ignored.
delete_message(z, message) == Pop(z, dumps(message))

\* ------------------------------------------------ redis_services.RedisService
\* A loop that stops after the first message.
delete_messages_FirstOnly(z, messages) ==
    IF messages = <<>> THEN z ELSE delete_message(z, Head(messages))

RECURSIVE delete_messages(_, _)
delete_messages(z, messages) ==
    IF messages = <<>> THEN z
    ELSE delete_messages(delete_message(z, Head(messages)), Tail(messages))

RECURSIVE Dedup(_)
\* Keys of a dict filled in the order of s: first occurrences, in order.
Dedup(s) ==
    IF s = <<>> THEN <<>>
    ELSE LET Later(x) == x # Head(s)
         IN <<Head(s)>> \o Dedup(SelectSeq(Tail(s), Later))

\* json.loads raises on some entry of the list.
Undecodable(messages) == \E i \in 1..Len(messages) : messages[i][1] = Malformed

\* The grouping loop over entries that all decode:
\* grouped[store_phone][phone] = [(model, score), ...], the two dicts in
\* insertion order.
GroupDecoded(messages) ==
    LET items == [i \in 1..Len(messages) |->
                    <<loads(messages[i][1]), messages[i][2]>>]
        stores == Dedup([i \in 1..Len(items) |-> items[i][1].store_phone])
    IN [s \in 1..Len(stores) |->
          LET InStore(x) == x[1].store_phone = stores[s]
              ofStore == SelectSeq(items, InStore)
              phones == Dedup([i \in 1..Len(ofStore) |-> ofStore[i][1].phone])
          IN [p \in 1..Len(phones) |->
                LET OfPhone(x) == x[1].phone = phones[p]
                IN SelectSeq(ofStore, OfPhone)]]

\* A group_messages that skips the entries json.loads rejects.
group_messages_SkipBad(messages) ==
    LET Decodes(x) == x[1] # Malformed
    IN [raised |-> FALSE, value |-> GroupDecoded(SelectSeq(messages, Decodes))]

\* group_messages; `raised` tells that json.loads raised JSONDecodeError,
\* which leaves the function without a result.
group_messages(messages) ==
    IF Undecodable(messages) THEN [raised |-> TRUE, value |-> <<>>]
    ELSE [raised |-> FALSE, value |-> GroupDecoded(messages)]

\* list.sort(key=lambda x: x[1]) inserts x behind the entries that are not
\* greater (the sort is stable).
InsertByScore(sorted, x) ==
    LET n == Cardinality({i \in 1..Len(sorted) : sorted[i][2] <= x[2]})
    IN SubSeq(sorted, 1, n) \o <<x>> \o SubSeq(sorted, n + 1, Len(sorted))

RECURSIVE SortByScore(_)
SortByScore(s) ==
    IF s = <<>> THEN <<>>
    ELSE InsertByScore(SortByScore(SubSeq(s, 1, Len(s) - 1)), s[Len(s)])

\* A test that also lets through a group whose newest entry is exactly at
\* cut.
Quiescent_AtCutoff(messages, cut) == messages[Len(messages)][2] <= cut

\* The test looking at the oldest entry of the group instead of the newest.
Quiescent_Oldest(messages, cut) == messages[1][2] < cut

\* `messages[-1][1] < cut` on the sorted group
Quiescent(messages, cut) == messages[Len(messages)][2] < cut

RECURSIVE FilterPhones_PerEvent(_, _)
\* A filter that keeps every message below cut, whatever the rest of its
\* group.
FilterPhones_PerEvent(messages_by_phone, cut) ==
    IF messages_by_phone = <<>> THEN <<>>
    ELSE LET messages == SortByScore(Head(messages_by_phone))
             Old(x) == x[2] < cut
             old == SelectSeq(messages, Old)
         IN [i \in 1..Len(old) |-> old[i][1]]
            \o FilterPhones_PerEvent(Tail(messages_by_phone), cut)

RECURSIVE FilterPhones(_, _)
FilterPhones(messages_by_phone, cut) ==
    IF messages_by_phone = <<>> THEN <<>>
    ELSE LET messages == SortByScore(Head(messages_by_phone))
             kept == IF Quiescent(messages, cut)
                     THEN [i \in 1..Len(messages) |-> messages[i][1]]
                     ELSE <<>>
         IN kept \o FilterPhones(Tail(messages_by_phone), cut)

RECURSIVE filter_messages(_, _)
\* The models of every group whose newest score is below cut, group after
\* group in the iteration order of the two dicts.
filter_messages(grouped_messages, cut) ==
    IF grouped_messages = <<>> THEN <<>>
    ELSE FilterPhones(Head(grouped_messages), cut)
         \o filter_messages(Tail(grouped_messages), cut)

\* time_search, from the entries retrieve_messages returned and the clock
\* read after it; the exception of group_messages passes through.
time_search(messages, clock, time_threshold_seconds) ==
    LET grouped_messages == group_messages(messages)
        cut == clock - time_threshold_seconds
    IN IF grouped_messages.raised THEN [raised |-> TRUE, value |-> <<>>]
       ELSE [raised |-> FALSE,
             value |-> filter_messages(grouped_messages.value, cut)]

\* --------------------------------------------------------- consumer.processer
TaskKeys(t) == {t[i].key : i \in 1..Len(t)}

\* tasks[composite_key]
TaskOf(t, key) == t[CHOOSE i \in 1..Len(t) : t[i].key = key]

\* tasks.pop(composite_key)
PopTask(t, key) == LET Other(x) == x.key # key IN SelectSeq(t, Other)

\* tasks[composite_key] = future: a new key goes last, a key already in the
\* dict keeps its place.
PutTask(t, key, fut) ==
    IF key \in TaskKeys(t)
    THEN [i \in 1..Len(t) |-> IF t[i].key = key THEN [key |-> key, fut |-> fut]
                              ELSE t[i]]
    ELSE Append(t, [key |-> key, fut |-> fut])

\* The scan without its test for a running task.
AlreadyProcessing_Never(t, key) == FALSE

\* `composite_key not in tasks` negated: the key is being processed.
AlreadyProcessing(t, key) == key \in TaskKeys(t)

RECURSIVE Collect_KeepsLast(_, _, _, _)
\* A scan loop that keeps only the latest message of a key.
Collect_KeepsLast(messages, t, key_list, mdict) ==
    IF messages = <<>> THEN [key_list |-> key_list, messages_dict |-> mdict]
    ELSE LET message == Head(messages)
             key == composite_key(message)
         IN IF AlreadyProcessing(t, key)
            THEN Collect_KeepsLast(Tail(messages), t, key_list, mdict)
            ELSE Collect_KeepsLast(Tail(messages), t,
                                   IF key \in SeqRange(key_list) THEN key_list
                                   ELSE Append(key_list, key),
                                   Put(mdict, key, <<message>>))

RECURSIVE Collect(_, _, _, _)
\* The loop over the messages of time_search: key_list takes each key
\* without a task once, in order; messages_dict[key] takes the message.
Collect(messages, t, key_list, mdict) ==
    IF messages = <<>> THEN [key_list |-> key_list, messages_dict |-> mdict]
    ELSE LET message == Head(messages)
             key == composite_key(message)
         IN IF AlreadyProcessing(t, key)
            THEN Collect(Tail(messages), t, key_list, mdict)
            ELSE Collect(Tail(messages), t,
                         IF key \in SeqRange(key_list) THEN key_list
                         ELSE Append(key_list, key),
                         Put(mdict, key, Append(Get(mdict, key, <<>>), message)))

\* The submit loop admitting one task too many.
SlotFree_OffByOne(t) == Len(t) <= workers

\* `len(tasks) < workers`
SlotFree(t) == Len(t) < workers

MaxFutures == workers + 1
FutureIds == 1..MaxFutures

\* pool.submit(process_message_and_send_to_client, messages): a new future,
\* running, bound to the list it was given.
submit(p, key, messages) ==
    LET id == CHOOSE i \in FutureIds \ DOMAIN p :
                  \A j \in FutureIds \ DOMAIN p : i <= j
    IN [id |-> id,
        pool |-> Put(p, id, [key |-> key, batch |-> messages,
                             state |-> "running"])]

RECURSIVE Submit_LastFirst(_, _, _, _)
\* A submit loop that takes the keys from the end of key_list.
Submit_LastFirst(key_list, t, p, mdict) ==
    IF key_list = <<>> \/ ~SlotFree(t)
    THEN [tasks |-> t, pool |-> p, full |-> FALSE]
    ELSE IF FutureIds \ DOMAIN p = {}
    THEN [tasks |-> t, pool |-> p, full |-> TRUE]
    ELSE LET key == key_list[Len(key_list)]
             sub == submit(p, key, mdict[key])
         IN Submit_LastFirst(SubSeq(key_list, 1, Len(key_list) - 1),
                             PutTask(t, key, sub.id), sub.pool, mdict)

RECURSIVE Submit(_, _, _, _)
\* `while key_list and len(tasks) < workers`; `full` tells that the model
\* ran out of future ids.
Submit(key_list, t, p, mdict) ==
    IF key_list = <<>> \/ ~SlotFree(t)
    THEN [tasks |-> t, pool |-> p, full |-> FALSE]
    ELSE IF FutureIds \ DOMAIN p = {}
    THEN [tasks |-> t, pool |-> p, full |-> TRUE]
    ELSE LET key == Head(key_list)
             sub == submit(p, key, mdict[key])
         IN Submit(Tail(key_list), PutTask(t, key, sub.id), sub.pool, mdict)

\* An eviction test that lets one more failure pass.
EvictDue_Late(count) == count > MaxTries + 1

\* `tries[composite_key] > 3`
EvictDue(count) == count > MaxTries

\* The success branch of the reap: a key with a tries entry gets 4.
OnSuccess(tr, key) == IF key \in DOMAIN tr THEN Put(tr, key, ResetValue) ELSE tr

\* The failure branch of the reap: the count starts at 0 and grows by one.
OnFailure(tr, key) == Put(tr, key, Get(tr, key, 0) + 1)

RECURSIVE ReapLoop(_, _, _, _)
\* `for composite_key in list(tasks.keys())`: Future.result() returns the
\* boolean of a finished task or raises the exception the task raised, which
\* ends the loop and processer with what was done so far.
ReapLoop(t, p, tr, done) ==
    IF t = <<>> THEN [raised |-> FALSE, tries |-> tr, done_tasks |-> done]
    ELSE LET key == Head(t).key
             state == p[Head(t).fut].state
         IN CASE state = "running" -> ReapLoop(Tail(t), p, tr, done)
              [] state = "raised" ->
                    [raised |-> TRUE, tries |-> tr, done_tasks |-> done]
              [] state = "true" ->
                    ReapLoop(Tail(t), p, OnSuccess(tr, key),
                             Append(done, key))
              [] state = "false" ->
                    ReapLoop(Tail(t), p, OnFailure(tr, key), done)

RECURSIVE RemoveDone(_, _)
\* `for composite_key in done_tasks`: drop the task, delete its messages from
\* Redis, drop its list.  c is [tasks, pool, webhook, messages_dict].
RemoveDone(done, c) ==
    IF done = <<>> THEN c
    ELSE LET key == Head(done)
         IN RemoveDone(Tail(done),
              [tasks |-> PopTask(c.tasks, key),
               pool |-> Pop(c.pool, TaskOf(c.tasks, key).fut),
               webhook |-> delete_messages(c.webhook, c.messages_dict[key]),
               messages_dict |-> Pop(c.messages_dict, key)])

\* The keys the eviction loop acts on.
EvictKeys(tr) == {key \in DOMAIN tr : EvictDue(tr[key])}

\* `messages_dict[composite_key]` or `tasks.pop(composite_key)` raises
\* KeyError in the eviction loop.
EvictKeyError(tr, t, mdict) ==
    \E key \in EvictKeys(tr) : key \notin DOMAIN mdict \/ key \notin TaskKeys(t)

\* An eviction that deletes the list of another key when there is one.
EvictedMessages_OtherKey(mdict, key) ==
    mdict[CHOOSE k \in DOMAIN mdict : DOMAIN mdict # {key} => k # key]

\* The messages the eviction of key deletes from Redis.
EvictedMessages(mdict, key) == mdict[key]

RECURSIVE EvictLoop_KeepsCount(_, _)
\* An eviction that forgets tries.pop: the key keeps its count.
EvictLoop_KeepsCount(keys, c) ==
    IF keys = {} THEN c
    ELSE LET key == CHOOSE k \in keys : TRUE
         IN EvictLoop_KeepsCount(keys \ {key},
              [tasks |-> PopTask(c.tasks, key),
               pool |-> Pop(c.pool, TaskOf(c.tasks, key).fut),
               webhook |-> delete_messages(c.webhook,
                                           EvictedMessages(c.messages_dict, key)),
               messages_dict |-> Pop(c.messages_dict, key),
               tries |-> c.tries])

RECURSIVE EvictLoop_KeepsTask(_, _)
\* An eviction that forgets tasks.pop: the key keeps its task handle.
EvictLoop_KeepsTask(keys, c) ==
    IF keys = {} THEN c
    ELSE LET key == CHOOSE k \in keys : TRUE
         IN EvictLoop_KeepsTask(keys \ {key},
              [tasks |-> c.tasks,
               pool |-> c.pool,
               webhook |-> delete_messages(c.webhook,
                                           EvictedMessages(c.messages_dict, key)),
               messages_dict |-> Pop(c.messages_dict, key),
               tries |-> Pop(c.tries, key)])

RECURSIVE EvictLoop(_, _)
\* `for composite_key in list(tries.keys())`, over the keys that are due;
\* c is [tasks, pool, webhook, messages_dict, tries].
EvictLoop(keys, c) ==
    IF keys = {} THEN c
    ELSE LET key == CHOOSE k \in keys : TRUE
         IN EvictLoop(keys \ {key},
              [tasks |-> PopTask(c.tasks, key),
               pool |-> Pop(c.pool, TaskOf(c.tasks, key).fut),
               webhook |-> delete_messages(c.webhook,
                                           EvictedMessages(c.messages_dict, key)),
               messages_dict |-> Pop(c.messages_dict, key),
               tries |-> Pop(c.tries, key)])

\* A constructor that lets the exception of redis.Redis(...) out.
RedisDatabase_init_Raises(redis_raises) ==
    [handler |-> ~redis_raises, raised |-> redis_raises]

\* RedisDatabase.__init__: redis.Redis(...) raising is caught and logged, the
\* object is returned without its `handler` attribute.
RedisDatabase_init(redis_raises) ==
    [handler |-> ~redis_raises, raised |-> FALSE]

\* ------------------------------------------------------------ chatbot.ChatBot
\* HUMAN_COOLDOWN = timedelta(minutes=5), in seconds
HUMAN_COOLDOWN == 300
\* `abs((sent_at - last_llm_dt).total_seconds()) <= 20`
EchoTolerance == 20

\* The moments, in seconds, at which messages are sent and replies written:
\* 20 and 21 seconds apart, 300 and 301 seconds apart.
Instants == {0, 20, 21, 321}

\* Message texts; one differs from another only by the blanks around it.
Texts == {"ola", " ola "}
\* What the LLM answers.
Replies == {"ola", "oi"}

\* str.strip()
strip(text) == IF text = " ola " THEN "ola" ELSE text

Abs(x) == IF x < 0 THEN -x ELSE x

\* _as_datetime on the string of last_interacted_at: a string that
\* datetime.fromisoformat or float() accepts gives its moment in UTC, any
\* other string the clock.
as_datetime(value, clock) == IF value.form = "iso" THEN value.t ELSE clock

\* EvolutionMapping._unix_to_timestamp_str: "%Y-%m-%d %H:%M:%S.%f", UTC.
unix_to_timestamp_str(t) == [form |-> "iso", t |-> t]

\* EvolutionMapping.map_payload_to_internal_messages: a message of the store
\* itself (from_me) is tagged "hum" and never asks for the LLM or a WhatsApp
\* send; a message of the customer is tagged "usr" and takes the defaults.
map_message(from_me, t, content, default_send_to_wpp, default_use_llm) ==
    [who_sent |-> IF from_me THEN "hum" ELSE "usr",
     last_interacted_at |-> unix_to_timestamp_str(t),
     content |-> content,
     send_to_wpp |-> IF from_me THEN FALSE ELSE default_send_to_wpp,
     use_llm |-> IF from_me THEN FALSE ELSE default_use_llm]

\* The messages a batch can hold: the customer writes "ola" early or late,
\* the store writes either text at one of the three early moments.
Incoming(default_send_to_wpp, default_use_llm) ==
    {map_message(FALSE, t, "ola", default_send_to_wpp, default_use_llm) :
        t \in {0, 321}}
    \cup {map_message(TRUE, t, content, default_send_to_wpp, default_use_llm) :
            t \in Instants \ {321}, content \in Texts}

\* The lists process_message_and_send_to_client posts: one or two messages.
Batches ==
    UNION {{<<m>> : m \in Incoming(w, l)}
           \cup {<<m1, m2>> : m1, m2 \in Incoming(w, l)} :
             w \in BOOLEAN, l \in BOOLEAN}

\* get_last_message_by_chat_id_and_sender: the rows of the sender with the
\* latest sent_at (at most one row, none when the sender never wrote).
get_last_message_from_sender(h, who_sent) ==
    {row \in h : /\ row.who_sent = who_sent
                 /\ \A other \in h :
                       other.who_sent = who_sent => other.sent_at <= row.sent_at}

\* An echo test that looks only at messages after the reply.
EchoWithin_OnlyAfter(sent_at, last_llm_dt) ==
    sent_at - last_llm_dt >= 0 /\ sent_at - last_llm_dt <= EchoTolerance

\* `abs((sent_at - last_llm_dt).total_seconds()) <= 20`
EchoWithin(sent_at, last_llm_dt) == Abs(sent_at - last_llm_dt) <= EchoTolerance

\* An echo test that compares the texts with the blanks around them.
should_store_message_NoTrim(h, message, sent_at) ==
    IF message.who_sent # "hum" THEN TRUE
    ELSE IF get_last_message_from_sender(h, "llm") = {} THEN TRUE
    ELSE LET last_llm == CHOOSE row \in get_last_message_from_sender(h, "llm") : TRUE
         IN ~(/\ EchoWithin(sent_at, last_llm.sent_at)
              /\ last_llm.content = message.content)

\* _should_store_message
should_store_message(h, message, sent_at) ==
    IF message.who_sent # "hum" THEN TRUE
    ELSE IF get_last_message_from_sender(h, "llm") = {} THEN TRUE
    ELSE LET last_llm == CHOOSE row \in get_last_message_from_sender(h, "llm") : TRUE
         IN ~(/\ EchoWithin(sent_at, last_llm.sent_at)
              /\ strip(last_llm.content) = strip(message.content))

\* CRUDChatsMessages.message_exists: a row of the chat with this sent_at and
\* this sender, whatever its content.
message_exists(h, sent_at, who_sent) ==
    \E row \in h : row.sent_at = sent_at /\ row.who_sent = who_sent

\* A create that skips only the row that is stored already with its content.
create_ByContent(h, content, sent_at, who_sent) ==
    h \cup {[sent_at |-> sent_at, who_sent |-> who_sent, content |-> content]}

\* ChatMessageService.create: nothing is written when message_exists.
create(h, content, sent_at, who_sent) ==
    IF message_exists(h, sent_at, who_sent) THEN h
    ELSE h \cup {[sent_at |-> sent_at, who_sent |-> who_sent, content |-> content]}

RECURSIVE StoreLoop_OnlyForLlm(_, _, _)
\* A loop that stores only the messages that ask for the LLM.
StoreLoop_OnlyForLlm(h, messages, clock) ==
    IF messages = <<>> THEN h
    ELSE LET message == Head(messages)
             sent_at == as_datetime(message.last_interacted_at, clock)
         IN StoreLoop_OnlyForLlm(
                IF message.use_llm /\ should_store_message(h, message, sent_at)
                THEN create(h, message.content, sent_at, message.who_sent)
                ELSE h,
                Tail(messages), clock)

RECURSIVE StoreLoop(_, _, _)
\* `for message in data`: store what _should_store_message lets through.
StoreLoop(h, messages, clock) ==
    IF messages = <<>> THEN h
    ELSE LET message == Head(messages)
             sent_at == as_datetime(message.last_interacted_at, clock)
         IN StoreLoop(IF should_store_message(h, message, sent_at)
                      THEN create(h, message.content, sent_at, message.who_sent)
                      ELSE h,
                      Tail(messages), clock)

\* A cooldown that ends exactly at five minutes.
CooldownOpen_Strict(reference_time, last_human_dt) ==
    reference_time - last_human_dt < HUMAN_COOLDOWN

\* `reference_time - last_human_dt <= self.HUMAN_COOLDOWN`
CooldownOpen(reference_time, last_human_dt) ==
    reference_time - last_human_dt <= HUMAN_COOLDOWN

\* A cooldown that counts from the last message of anybody.
LastHuman_AnySender(h) ==
    {row \in h : \A other \in h : other.sent_at <= row.sent_at}

\* get_last_message_from_sender(db, chat_id, "hum")
LastHuman(h) == get_last_message_from_sender(h, "hum")

\* _is_human_cooldown_active
is_human_cooldown_active(h, reference_time, last_sender) ==
    IF last_sender = "hum" THEN TRUE
    ELSE IF LastHuman(h) = {} THEN FALSE
    ELSE LET last_human_dt == (CHOOSE row \in LastHuman(h) : TRUE).sent_at
             reference == IF reference_time < last_human_dt THEN last_human_dt
                          ELSE reference_time
         IN CooldownOpen(reference, last_human_dt)

\* What a call of ChatBot.run did: the kind of its response ("test",
\* "advisory", "llm", or "error" when it raised), the text of the reply, and
\* whether it called chatbot_graph.run, get_by_chat_id, send_message.
NoRun == [response |-> "none", reply |-> "", graph_run |-> FALSE,
          get_by_chat_id |-> FALSE, send_message |-> FALSE]

\* ChatBot.run on a batch.  `ends` is how the calls to the outside end:
\* "ok", or chatbot_graph.run or send_message raising; `reply` is the text
\* of the LLM and `replied_at` the clock when the reply is written.
ChatBot_run(h, messages, clock, ends, reply, replied_at) ==
    LET last_message == messages[Len(messages)]
        stored == StoreLoop(h, messages, clock)
        last_message_dt == as_datetime(last_message.last_interacted_at, clock)
    IN IF ~last_message.use_llm
       THEN [history |-> stored, out |-> [NoRun EXCEPT !.response = "test"]]
       ELSE IF is_human_cooldown_active(stored, last_message_dt,
                                        last_message.who_sent)
       THEN [history |-> stored, out |-> [NoRun EXCEPT !.response = "advisory"]]
       ELSE IF ends = "graph_raised"
       THEN [history |-> stored,
             out |-> [NoRun EXCEPT !.response = "error", !.graph_run = TRUE,
                                   !.get_by_chat_id = TRUE]]
       ELSE IF ends = "send_raised" /\ last_message.send_to_wpp
       THEN [history |-> stored,
             out |-> [NoRun EXCEPT !.response = "error", !.graph_run = TRUE,
                                   !.get_by_chat_id = TRUE,
                                   !.send_message = TRUE]]
       ELSE [history |-> create(stored, reply, replied_at, "llm"),
             out |-> [response |-> "llm", reply |-> reply, graph_run |-> TRUE,
                      get_by_chat_id |-> TRUE,
                      send_message |-> last_message.send_to_wpp]]

\* -------------------------------------------------------------------- states
ConsumerInit ==
    /\ now = 0
    /\ webhook = EmptyDict
    /\ appends = 0
    /\ handler = FALSE
    /\ pc = "construct"
    /\ err = "none"
    /\ snapshot = <<>>
    /\ pool = EmptyDict
    /\ tasks = <<>>
    /\ tries = EmptyDict
    /\ messages_dict = EmptyDict
    /\ done_tasks = <<>>
    /\ failed_runs = [key \in Keys |-> 0]
    /\ evicted = {}

\* filter_messages has not been called on its own.
NotCalled == [returned |-> FALSE, value |-> <<>>]

FilterIdle ==
    /\ entries = <<>>
    /\ cutoff = 0
    /\ filtered = NotCalled

\* The consumer starts; nothing has been posted to the API.
Init ==
    /\ ConsumerInit
    /\ FilterIdle
    /\ history = {}
    /\ utcnow = 0
    /\ delivered = <<>>
    /\ out = NoRun
    /\ runs = 0

loopVars == <<handler, pc, err, snapshot, pool, tasks, tries, messages_dict,
              done_tasks, failed_runs, evicted>>

\* processer has not ended with an exception; the model follows the system
\* up to that point.
Running == pc # "crashed"

\* Time passes.
Tick ==
    /\ Running
    /\ now < MaxTime
    /\ now' = now + 1
    /\ UNCHANGED <<webhook, appends, loopVars>>
    /\ UNCHANGED <<chatVars, filterVars>>

\* A producer (the webhook controller) calls RedisService.save(data).
Produce ==
    /\ Running
    /\ appends < MaxAppends
    /\ \E data \in Messages : webhook' = save(webhook, data, now)
    /\ appends' = appends + 1
    /\ UNCHANGED <<now, loopVars>>
    /\ UNCHANGED <<chatVars, filterVars>>

\* Some other writer puts bytes that are no JSON into the sorted set.
ProduceMalformed ==
    /\ Running
    /\ appends < MaxAppends
    /\ webhook' = zadd(webhook, Malformed, now)
    /\ appends' = appends + 1
    /\ UNCHANGED <<now, loopVars>>
    /\ UNCHANGED <<chatVars, filterVars>>

\* processer, lines 98-103: the store object and the pool are built.
Construct ==
    /\ pc = "construct"
    /\ \E redis_raises \in BOOLEAN :
         \E r \in {RedisDatabase_init(redis_raises)} :
            /\ handler' = r.handler
            /\ pc' = IF r.raised THEN "crashed" ELSE "retrieve"
            /\ err' = IF r.raised THEN "Exception" ELSE err
    /\ UNCHANGED <<now, webhook, appends, snapshot, pool, tasks, tries,
                   messages_dict, done_tasks, failed_runs, evicted>>
    /\ UNCHANGED <<chatVars, filterVars>>

\* time_search, first half: retrieve_messages reads the whole sorted set
\* through self.handler.
Retrieve ==
    /\ pc = "retrieve"
    /\ IF handler
       THEN /\ snapshot' = retrieve_messages(webhook)
            /\ pc' = "admit"
            /\ err' = err
       ELSE /\ snapshot' = snapshot
            /\ pc' = "crashed"
            /\ err' = "AttributeError"
    /\ evicted' = {}
    /\ UNCHANGED <<now, webhook, appends, handler, pool, tasks, tries,
                   messages_dict, done_tasks, failed_runs>>
    /\ UNCHANGED <<chatVars, filterVars>>

\* time_search, second half, and processer lines 114-147: group and filter
\* the entries against the clock, collect them per key, submit the keys.
AdmitUpTo(limit) ==
    /\ pc = "admit"
    /\ \E found \in {time_search(snapshot, now, CONSUMER_REDIS_TIME_INT)} :
          IF found.raised
          THEN /\ pc' = "crashed"
               /\ err' = "JSONDecodeError"
               /\ UNCHANGED <<pool, tasks, messages_dict>>
          ELSE \E col \in {Collect(found.value, tasks, <<>>, messages_dict)} :
               \E sub \in {Submit(col.key_list, tasks, pool, col.messages_dict)} :
                  /\ ~sub.full
                  /\ \A key \in DOMAIN col.messages_dict :
                        Len(col.messages_dict[key]) <= limit
                  /\ messages_dict' = col.messages_dict
                  /\ tasks' = sub.tasks
                  /\ pool' = sub.pool
                  /\ pc' = "reap"
                  /\ err' = err
    /\ snapshot' = <<>>
    /\ UNCHANGED <<now, webhook, appends, handler, tries, done_tasks,
                   failed_runs, evicted>>
    /\ UNCHANGED <<chatVars, filterVars>>

\* The scan and submit of a cycle; the model follows lists of up to
\* MaxBatch messages.
Admit == AdmitUpTo(MaxBatch)

\* How POST /api/user/process_message can end for the worker: ChatBot.run
\* returned the reply of the LLM, the test response or the cooldown advisory,
\* ChatBot.run raised, or the request itself failed.
Answers == {"llm", "test", "advisory", "error", "unreachable"}

\* user_controllers.process_message: 200 with the string ChatBot.run
\* returned, HTTPException 500 when it raised.
status_code(answer) == IF answer = "error" THEN 500 ELSE 200

\* process_message_and_send_to_client: the state its future ends in.
process_message_and_send_to_client(answer) ==
    IF answer = "unreachable" THEN "raised"
    ELSE IF status_code(answer) = 200 THEN "true"
    ELSE "false"

\* A worker thread finishes process_message_and_send_to_client: status 200
\* gives True, another status False, and requests.post may raise.  The loop
\* looks at a future only in the reap (Future.done), so a worker that ends at
\* any moment of a cycle is taken to end right before the reap that first
\* sees it.
Complete ==
    /\ pc = "reap"
    /\ \E id \in DOMAIN pool : \E answer \in Answers :
       \E outcome \in {process_message_and_send_to_client(answer)} :
         /\ pool[id].state = "running"
         /\ pool' = [pool EXCEPT ![id].state = outcome]
         /\ failed_runs' =
              IF outcome = "true" THEN failed_runs
              ELSE [failed_runs EXCEPT ![pool[id].key] = @ + 1]
    /\ UNCHANGED <<now, webhook, appends, handler, pc, err, snapshot, tasks,
                   tries, messages_dict, done_tasks, evicted>>
    /\ UNCHANGED <<chatVars, filterVars>>

\* processer lines 150-191: look at every task, then remove the ones that
\* succeeded together with their messages.
Reap ==
    /\ pc = "reap"
    /\ \E r \in {ReapLoop(tasks, pool, tries, <<>>)} :
          IF r.raised
          THEN /\ tries' = r.tries
               /\ pc' = "crashed"
               /\ err' = "ProcessorException"
               /\ done_tasks' = r.done_tasks
               /\ UNCHANGED <<webhook, pool, tasks, messages_dict, failed_runs>>
          ELSE \E c \in {RemoveDone(r.done_tasks,
                          [tasks |-> tasks, pool |-> pool, webhook |-> webhook,
                           messages_dict |-> messages_dict])} :
                  /\ tries' = r.tries
                  /\ tasks' = c.tasks
                  /\ pool' = c.pool
                  /\ webhook' = c.webhook
                  /\ messages_dict' = c.messages_dict
                  /\ done_tasks' = r.done_tasks
                  /\ failed_runs' = [key \in Keys |->
                        IF key \in SeqRange(r.done_tasks) THEN 0
                        ELSE failed_runs[key]]
                  /\ pc' = "evict"
                  /\ err' = err
    /\ UNCHANGED <<now, appends, handler, snapshot, evicted>>
    /\ UNCHANGED <<chatVars, filterVars>>

\* processer lines 194-206: evict the keys that failed too often, then sleep.
Evict ==
    /\ pc = "evict"
    /\ IF EvictKeyError(tries, tasks, messages_dict)
       THEN /\ pc' = "crashed"
            /\ err' = "KeyError"
            /\ UNCHANGED <<webhook, pool, tasks, tries, messages_dict,
                           done_tasks, failed_runs, evicted>>
       ELSE \E c \in {EvictLoop(EvictKeys(tries),
                       [tasks |-> tasks, pool |-> pool, webhook |-> webhook,
                        messages_dict |-> messages_dict, tries |-> tries])} :
               /\ tasks' = c.tasks
               /\ pool' = c.pool
               /\ webhook' = c.webhook
               /\ messages_dict' = c.messages_dict
               /\ tries' = c.tries
               /\ failed_runs' = [key \in Keys |->
                     IF key \in EvictKeys(tries) THEN 0 ELSE failed_runs[key]]
               /\ evicted' = EvictKeys(tries)
               /\ done_tasks' = <<>>
               /\ pc' = "retrieve"
               /\ err' = err
    /\ UNCHANGED <<now, appends, handler, snapshot>>
    /\ UNCHANGED <<chatVars, filterVars>>

Next ==
    \/ Tick
    \/ Produce
    \/ ProduceMalformed
    \/ Construct
    \/ Retrieve
    \/ Admit
    \/ Complete
    \/ Reap
    \/ Evict

Spec == Init /\ [][Next]_vars

\* ---------------------------------------------------------------- chat steps
\* chatbot_graph.run is reached: the last message asks for the LLM and no
\* cooldown is active after the messages were stored.
GraphRuns(h, messages, clock) ==
    LET last_message == messages[Len(messages)]
    IN /\ last_message.use_llm
       /\ ~is_human_cooldown_active(
              StoreLoop(h, messages, clock),
              as_datetime(last_message.last_interacted_at, clock),
              last_message.who_sent)

\* How the calls to the outside can end for a batch: the LLM answers one of
\* Replies or raises, send_message (called when send_to_wpp) returns or
\* raises, and the clock does not go back meanwhile.  Nothing is called when
\* chatbot_graph.run is not reached.
Calls(h, messages, clock) ==
    IF ~GraphRuns(h, messages, clock)
    THEN {[ends |-> "ok", reply |-> "", replied_at |-> clock]}
    ELSE {c \in [ends : {"ok", "graph_raised", "send_raised"},
                 reply : Replies \cup {""},
                 replied_at : {t \in Instants : t >= clock}] :
            /\ c.ends = "send_raised" => messages[Len(messages)].send_to_wpp
            /\ c.reply = "" <=> c.ends = "graph_raised"}

\* POST /process_message: ChatBot.run on a batch of the conversation.
Run ==
    /\ runs < MaxRuns
    /\ \E messages \in Batches :
       \E c \in Calls(history, messages, utcnow) :
       \E r \in {ChatBot_run(history, messages, utcnow,
                             c.ends, c.reply, c.replied_at)} :
          /\ history' = r.history
          /\ out' = r.out
          /\ delivered' = messages
          /\ utcnow' = c.replied_at
    /\ runs' = runs + 1
    /\ UNCHANGED <<consumerVars, filterVars>>

\* The batch of the latest call is delivered again.
Redeliver ==
    /\ runs < MaxRuns
    /\ delivered # <<>>
    /\ \E c \in Calls(history, delivered, utcnow) :
       \E r \in {ChatBot_run(history, delivered, utcnow,
                             c.ends, c.reply, c.replied_at)} :
          /\ history' = r.history
          /\ out' = r.out
          /\ utcnow' = c.replied_at
    /\ runs' = runs + 1
    /\ UNCHANGED <<delivered, consumerVars, filterVars>>

\* The chat of a conversation that is new or holds one reply of the LLM.
ChatInit ==
    /\ ConsumerInit
    /\ FilterIdle
    /\ history \in {{}, create({}, "ola", 0, "llm")}
    /\ utcnow = 0
    /\ delivered = <<>>
    /\ out = NoRun
    /\ runs = 0

ChatNext ==
    \/ Run
    \/ Redeliver

ChatSpec == ChatInit /\ [][ChatNext]_vars

\* ------------------------------------------------------------ the fair loop
\* The loop under the conditions of a run that drains Redis: the store
\* object has its connection, every entry is written by save, producers stop
\* one window and a tick before the clock of the model ends, every task has
\* returned True or False when the reap looks at it, and the list of a key
\* that waits for a slot may grow through all the cycles two failed tasks
\* hold the slots.
LiveBatch == 2 * (MaxTries + 2) * Cardinality(Contents)

LiveProduce == now + CONSUMER_REDIS_TIME_INT < MaxTime /\ Produce

LiveConstruct == Construct /\ handler'

LiveAdmit == AdmitUpTo(LiveBatch)

LiveComplete ==
    /\ Complete
    /\ \A id \in DOMAIN pool' : pool'[id].state # "raised"

LiveReap ==
    /\ \A id \in DOMAIN pool : pool[id].state # "running"
    /\ Reap

LiveNext ==
    \/ Tick
    \/ LiveProduce
    \/ LiveConstruct
    \/ Retrieve
    \/ LiveAdmit
    \/ LiveComplete
    \/ LiveReap
    \/ Evict

\* The positions of the loop, and processer going from one to the next: the
\* reap once no task is still running, every other step at once.  The steps
\* of the loop are the steps that change pc.
Positions == {"construct", "retrieve", "admit", "reap", "evict"}

Proceed ==
    /\ pc \in Positions
    /\ pc = "reap" => \A id \in DOMAIN pool : pool[id].state # "running"
    /\ pc' \in Positions \ {pc}

\* The clock goes on, the worker threads end and the loop keeps running.
LiveSpec ==
    /\ Init
    /\ [][LiveNext]_vars
    /\ WF_vars(Tick)
    /\ WF_vars(LiveComplete)
    /\ WF_pc(Proceed)

\* -------------------------------------------------------------- filter steps
\* The lists filter_messages can be given through group_messages: up to
\* MaxAppends entries of the sorted set, each member once, in any order and
\* with any score (the unit tests pass groups that are not sorted).
EntryLists ==
    {s \in UNION {[1..n -> Members \X (0..MaxTime)] : n \in 0..MaxAppends} :
        \A i, j \in 1..Len(s) : i # j => s[i][1] # s[j][1]}

\* `cut`: the clock of time_search minus the threshold.
Cuts == {clock - CONSUMER_REDIS_TIME_INT : clock \in 0..MaxTime}

FilterInit ==
    /\ ConsumerInit
    /\ history = {}
    /\ utcnow = 0
    /\ delivered = <<>>
    /\ out = NoRun
    /\ runs = 0
    /\ entries \in EntryLists
    /\ cutoff \in Cuts
    /\ filtered = NotCalled

\* filter_messages(group_messages(entries), cutoff) returns.
Filter ==
    /\ ~filtered.returned
    /\ filtered' = [returned |-> TRUE,
                    value |-> filter_messages(group_messages(entries).value,
                                              cutoff)]
    /\ UNCHANGED <<entries, cutoff, consumerVars, chatVars>>

FilterNext == Filter

FilterSpec == FilterInit /\ [][FilterNext]_vars

\* ------------------------------------------------------------------- claims
\* The members a list of message dicts names in Redis.
MembersOf(messages) == {dumps(messages[i]) : i \in 1..Len(messages)}

\* The key of an entry of the sorted set.
KeyOfMember(m) == composite_key(loads(m))

\* The keys that get a task in this step.
Submitted == TaskKeys(tasks') \ TaskKeys(tasks)

\* The list the new task of key was submitted with.
SubmittedBatch(key) == pool'[TaskOf(tasks', key).fut].batch

OneTaskPerKey ==
    \A key \in Keys :
        /\ Cardinality({i \in 1..Len(tasks) : tasks[i].key = key}) <= 1
        /\ Cardinality({id \in DOMAIN pool : pool[id].key = key}) <= 1

KeptTask ==
    \A key \in TaskKeys(tasks) \cap TaskKeys(tasks') :
        /\ TaskOf(tasks', key).fut = TaskOf(tasks, key).fut
        /\ pool'[TaskOf(tasks', key).fut].batch
             = pool[TaskOf(tasks, key).fut].batch

\* C1: at every instant each conversation key has at most one entry in tasks
\* and at most one future in the pool, and while a key has an entry no step
\* submits it again: the entry keeps its future and that future its batch.
C1_SingleFlight == []OneTaskPerKey /\ [][KeptTask]_vars

\* A key whose task failed is still in tasks after a later scan found its
\* messages again (its count has grown past 1), and another task runs.
C1_Witness ==
    \E i \in 1..Len(tasks) :
        /\ Get(tries, tasks[i].key, 0) >= 2
        /\ MembersOf(pool[tasks[i].fut].batch) \subseteq DOMAIN webhook
        /\ Len(tasks) = 2

\* C2: the main loop never holds more than `workers` task handles, and the
\* pool never holds more than `workers` futures.
C2_Capacity == Len(tasks) <= workers /\ Cardinality(DOMAIN pool) <= workers

\* All slots are taken while a third key, collected by the scan, waits.
C2_Witness ==
    /\ Len(tasks) = workers
    /\ \E key \in DOMAIN messages_dict : key \notin TaskKeys(tasks)

\* The scores under which the snapshot of this cycle holds a message.
ScannedScores(msg) ==
    {snapshot[e][2] : e \in {x \in 1..Len(snapshot) : snapshot[x][1] = dumps(msg)}}

\* Every message of the batch was scanned, at least one window old.
BatchIsQuiet(batch) ==
    \A j \in 1..Len(batch) :
        /\ ScannedScores(batch[j]) # {}
        /\ \A score \in ScannedScores(batch[j]) :
              now - score >= CONSUMER_REDIS_TIME_INT

\* C3: whenever the loop submits a task for a key, every event of the
\* submitted batch is in the scan of that cycle with an arrival time at least
\* one debounce window before the clock.
C3_Debounced == [][\A key \in Submitted : BatchIsQuiet(SubmittedBatch(key))]_vars

\* A task runs on a batch of two different messages of one conversation.
C3_Witness ==
    \E id \in DOMAIN pool :
        /\ pool[id].state = "running"
        /\ Len(pool[id].batch) = 2
        /\ pool[id].batch[1] # pool[id].batch[2]

\* The group time_search returns for key in this cycle.
ScannedGroup(key) ==
    LET found == time_search(snapshot, now, CONSUMER_REDIS_TIME_INT)
        OfKey(msg) == composite_key(msg) = key
    IN SelectSeq(found.value, OfKey)

\* C4: the batch submitted for a key is exactly the group the scan of the
\* same cycle computed for it: each scanned event once, in arrival order,
\* nothing from earlier cycles.
C4_BatchIsScannedGroup ==
    [][\A key \in Submitted : SubmittedBatch(key) = ScannedGroup(key)]_vars

\* The members of the batches of the tasks that finished with True.
SucceededMembers ==
    UNION {MembersOf(pool[tasks[i].fut].batch) :
             i \in {x \in 1..Len(tasks) : pool[tasks[x].fut].state = "true"}}

EvictStep == pc = "evict" /\ pc' = "retrieve"

\* The reap loop or the scan ended in this step.
ReapStep == pc = "reap" /\ pc' # "reap"
AdmitStep == pc = "admit" /\ pc' # "admit"

\* The keys whose count is above 3 when the eviction loop starts.
OverBudget == {key \in DOMAIN tries : tries[key] > MaxTries}

\* The entries of Redis that belong to key.
EntriesOf(z, key) == {m \in DOMAIN z \ {Malformed} : KeyOfMember(m) = key}

C7_CountsFailedTasks ==
    pc \in {"evict", "retrieve", "admit"} =>
        \A key \in Keys : Get(tries, key, 0) = failed_runs[key]

\* C8: a task whose processor raised is reaped as a failure: the count of
\* its key grows by one, its events stay in Redis and the loop goes on.
C8_ExceptionIsTransient ==
    [][\A i \in 1..Len(tasks) :
         (ReapStep /\ pool[tasks[i].fut].state = "raised") =>
            /\ pc' = "evict"
            /\ Get(tries', tasks[i].key, 0) = Get(tries, tasks[i].key, 0) + 1
            /\ MembersOf(pool[tasks[i].fut].batch) \cap DOMAIN webhook
                 \subseteq DOMAIN webhook']_vars

\* C9 as amended: with an undecodable entry in the scan, group_messages
\* raises JSONDecodeError, the scan is aborted, no key is collected or
\* submitted in the cycle and processer ends with that exception.
C9_ScanAborts ==
    [][(AdmitStep /\ Undecodable(snapshot)) =>
          /\ pc' = "crashed"
          /\ err' = "JSONDecodeError"
          /\ tasks' = tasks
          /\ pool' = pool
          /\ messages_dict' = messages_dict]_vars

\* processer ended on the undecodable entry while a quiet conversation
\* without a task was in Redis and a slot was free.
C9_Witness ==
    /\ pc = "crashed"
    /\ err = "JSONDecodeError"
    /\ Len(tasks) < workers
    /\ \E key \in Keys \ TaskKeys(tasks) :
          /\ EntriesOf(webhook, key) # {}
          /\ \A m \in EntriesOf(webhook, key) :
                webhook[m] < now - CONSUMER_REDIS_TIME_INT

\* The keys the scan would collect from the decodable entries alone.
HealthyKeys ==
    LET Decodes(x) == x[1] # Malformed
        found == filter_messages(GroupDecoded(SelectSeq(snapshot, Decodes)),
                                 now - CONSUMER_REDIS_TIME_INT)
    IN Collect(found, tasks, <<>>, messages_dict).key_list

\* C9 as claimed: an undecodable entry does not abort the scan, and the
\* other eligible keys are submitted in the same cycle as far as slots are
\* free.
C9_OnlyOneGroupFails ==
    [][(AdmitStep /\ Undecodable(snapshot) /\ HealthyKeys # <<>>) =>
          /\ pc' = "reap"
          /\ \A j \in 1..Len(HealthyKeys) :
                j <= workers - Len(tasks) => HealthyKeys[j] \in TaskKeys(tasks')]_vars

\* C10 as amended: when redis.Redis raises in RedisDatabase.__init__ the
\* exception is caught and logged, the caller gets an object without
\* `handler`, and the failure shows only at the first store operation, as
\* the AttributeError that ends processer before anything was read.
C10_FailureSwallowed ==
    (pc # "construct" /\ ~handler) =>
        /\ pc = "retrieve" \/ (pc = "crashed" /\ err = "AttributeError")
        /\ snapshot = <<>>
        /\ tasks = <<>>

\* The store object came back without a handler and its first use raised.
C10_Witness == ~handler /\ pc = "crashed" /\ err = "AttributeError"

\* C10 as claimed: a failure while constructing reaches the caller as an
\* error, so nobody goes on with a store object that has no connection.
C10_FailurePropagates ==
    (pc # "construct" /\ ~handler) => (pc = "crashed" /\ err = "Exception")

\* ChatBot.run was called in this step, on the batch delivered'.
RunStep == runs' = runs + 1

\* The moment a message of a batch was sent, and the row it is stored as.
SentAt(message) == as_datetime(message.last_interacted_at, utcnow)
RowOf(message) ==
    [sent_at |-> SentAt(message), who_sent |-> message.who_sent,
     content |-> message.content]

\* The message repeats the most recent reply of the LLM found in h: same
\* text but for blanks around it, 20 seconds or less before or after it.
EchoOf(message, h) ==
    /\ message.who_sent = "hum"
    /\ \E reply \in h :
          /\ reply.who_sent = "llm"
          /\ \A other \in h : other.who_sent = "llm" => other.sent_at <= reply.sent_at
          /\ SentAt(message) - reply.sent_at <= 20
          /\ reply.sent_at - SentAt(message) <= 20
          /\ strip(reply.content) = strip(message.content)

\* C11: a call of ChatBot.run never writes to the history a human-operator
\* message of its batch that is sent within 20 seconds, before or after, of
\* the most recent LLM reply of the chat and has the same trimmed text.
C11_EchoDropped ==
    [][RunStep =>
         \A i \in 1..Len(delivered') :
            EchoOf(delivered'[i], history) =>
               RowOf(delivered'[i]) \notin history' \ history]_vars

\* A call that wrote no reply left out an operator message sent before the
\* reply it repeats.
C11_Witness ==
    /\ out.response \in {"test", "advisory"}
    /\ \E i \in 1..Len(delivered) :
          /\ EchoOf(delivered[i], history)
          /\ RowOf(delivered[i]) \notin history
          /\ \E reply \in history :
                reply.who_sent = "llm" /\ SentAt(delivered[i]) < reply.sent_at

\* The last message of the batch and its moment, the reference time.
LastOf(messages) == messages[Len(messages)]

\* The moments of the human-operator messages stored in h.
HumanTimes(h) == {row.sent_at : row \in {x \in h : x.who_sent = "hum"}}

\* The call answered with the advisory and touched nothing else.
OnlyAdvisory(o) ==
    /\ o.response = "advisory"
    /\ ~o.graph_run
    /\ ~o.get_by_chat_id
    /\ ~o.send_message

\* C12: when the last message of a batch asks for the LLM and the chat holds
\* a human-operator message of time T with the reference time at most
\* T + 5 minutes (also a reference time before T), ChatBot.run returns the
\* advisory: no LLM run, no history loaded, no WhatsApp message.
C12_CooldownAdvisory ==
    [][RunStep =>
         ((/\ LastOf(delivered').use_llm
           /\ \E T \in HumanTimes(history') :
                 SentAt(LastOf(delivered')) <= T + HUMAN_COOLDOWN)
          => OnlyAdvisory(out'))]_vars

\* The advisory was returned to a customer message sent exactly 5 minutes
\* after the latest operator message of the chat.
C12_Witness ==
    /\ OnlyAdvisory(out)
    /\ LastOf(delivered).who_sent = "usr"
    /\ \E T \in HumanTimes(history) :
          /\ \A other \in HumanTimes(history) : other <= T
          /\ SentAt(LastOf(delivered)) = T + HUMAN_COOLDOWN

\* C13: when the last message of a batch is a customer message that asks for
\* the LLM and every human-operator message of the chat is more than
\* 5 minutes older than the reference time (or there is none), ChatBot.run
\* runs the LLM and, unless the LLM or the send raises, returns its reply;
\* it never returns the advisory.
C13_CooldownEnds ==
    [][RunStep =>
         ((/\ LastOf(delivered').who_sent = "usr"
           /\ LastOf(delivered').use_llm
           /\ \A T \in HumanTimes(history') :
                 SentAt(LastOf(delivered')) > T + HUMAN_COOLDOWN)
          => /\ out'.graph_run
             /\ out'.response \in {"llm", "error"}
             /\ out'.response = "llm" => out'.reply \in Replies)]_vars

\* The LLM answered a customer message sent 5 minutes and 1 second after an
\* operator message of the chat.
C13_Witness ==
    /\ out.response = "llm"
    /\ \E T \in HumanTimes(history) :
          SentAt(LastOf(delivered)) = T + HUMAN_COOLDOWN + 1

\* The entries written after every scan that fed a task now in tasks: a scan
\* takes a message into a batch only with a score below its clock minus the
\* window, and the clock only grows.
WrittenAfterScan == {m \in DOMAIN webhook : webhook[m] >= now - CONSUMER_REDIS_TIME_INT}

\* C14: the removal after a success and the removal of an eviction leave in
\* Redis, with its score, every entry that a producer wrote after the scan
\* of the batch being removed.
C14_LateAppendsKept ==
    [][(ReapStep \/ EvictStep) =>
          \A m \in WrittenAfterScan :
             m \in DOMAIN webhook' /\ webhook'[m] = webhook[m]]_vars

\* The entries of key that the scan of this cycle read.
ScannedEntries(key) ==
    {snapshot[i][1] : i \in {x \in 1..Len(snapshot) :
                               /\ snapshot[x][1] # Malformed
                               /\ KeyOfMember(snapshot[x][1]) = key}}

\* C15 as amended: the batch submitted for a key contains every event of the
\* key that the scan of the same cycle read from Redis; what a producer
\* writes between that scan and the submit is not part of it.
C15_WholeScannedGroup ==
    [][\A key \in Submitted :
          ScannedEntries(key) \subseteq MembersOf(SubmittedBatch(key))]_vars

\* A task runs on a batch while Redis holds another event of its key that
\* was written after the scan of that batch.
C15_Witness ==
    /\ pc = "reap"
    /\ \E id \in DOMAIN pool :
          /\ pool[id].state = "running"
          /\ \E m \in EntriesOf(webhook, pool[id].key) \cap WrittenAfterScan :
                m \notin MembersOf(pool[id].batch)

\* C15 as claimed: at the moment of the submit the batch contains every event
\* of the key that is in Redis, whatever producers did since the scan.
C15_WholeStoredGroup ==
    [][\A key \in Submitted :
          EntriesOf(webhook, key) \subseteq MembersOf(SubmittedBatch(key))]_vars

\* The keys whose task the reap of this step sees finished with True.
SucceededKeys ==
    {tasks[i].key : i \in {x \in 1..Len(tasks) : pool[tasks[x].fut].state = "true"}}

\* The reap that sees the task of a key succeed leaves the key without a
\* count.
SuccessLeavesNoCount ==
    (ReapStep /\ pc' = "evict") => \A key \in SucceededKeys : key \notin DOMAIN tries'

\* C16: after the reap saw a task of a key succeed the key has no failure
\* count, and a key without a count is not evicted by one failed run: the
\* eviction of a key follows more than one failed run of its processor.
C16_SuccessClearsCount ==
    /\ [][SuccessLeavesNoCount]_vars
    /\ [][EvictStep => \A key \in OverBudget : failed_runs[key] > 1]_vars

\* The messages of customers and operators in the history.
Inbound(h) == {row \in h : row.who_sent # "llm"}

\* ChatBot.run is called in this step on the batch of the call before.
RedeliveryStep == RunStep /\ delivered # <<>> /\ delivered' = delivered

\* C17: a second ChatBot.run on a batch that was already processed adds no
\* message of a customer or an operator to the history.
C17_RedeliveryAddsNothing ==
    [][RedeliveryStep => Inbound(history') = Inbound(history)]_vars

\* The keys that are eligible in the scan of this cycle and have no task.
Waiting == {key \in Keys \ TaskKeys(tasks) : ScannedGroup(key) # <<>>}

\* The place in the scan of the first entry of a key, and of the first entry
\* of a store.
FirstOfKey(key) ==
    CHOOSE i \in 1..Len(snapshot) :
        /\ KeyOfMember(snapshot[i][1]) = key
        /\ \A j \in 1..(i - 1) : KeyOfMember(snapshot[j][1]) # key
FirstOfStore(store_phone) ==
    CHOOSE i \in 1..Len(snapshot) :
        /\ loads(snapshot[i][1]).store_phone = store_phone
        /\ \A j \in 1..(i - 1) : loads(snapshot[j][1]).store_phone # store_phone

\* The scan completed and the submit loop ran in this step.
SubmitStep == pc = "admit" /\ pc' = "reap"

\* k1 comes before k2: its store was seen first, or both write to the same
\* store and k1 was seen first.
StoreMajorBefore(k1, k2) ==
    \/ FirstOfStore(k1[2]) < FirstOfStore(k2[2])
    \/ k1[2] = k2[2] /\ FirstOfKey(k1) < FirstOfKey(k2)

FailedTasks == {i \in 1..Len(tasks) : pool[tasks[i].fut].state = "false"}

\* The reap leaves the events of a failed batch in Redis.
FailedBatchStays ==
    (ReapStep /\ pc' = "evict") =>
        \A i \in FailedTasks :
            MembersOf(pool[tasks[i].fut].batch) \cap DOMAIN webhook
                \subseteq DOMAIN webhook'

\* The last cycle before its eviction submits a failed key again when its
\* group is quiet in the scan and a slot is free.
FailedKeySubmittedAgain ==
    SubmitStep =>
        \A i \in FailedTasks :
            (/\ Get(tries, tasks[i].key, 0) = MaxTries
             /\ ScannedGroup(tasks[i].key) # <<>>
             /\ SlotFree(tasks))
            => pool'[TaskOf(tasks', tasks[i].key).fut].state = "running"

\* C19: after a task of a key failed and while its count is at most 3, the
\* events of the key stay in Redis and the loop submits the group of the key
\* again, at the latest in the last cycle before the count would pass 3, if
\* the group is still quiet and a slot is free.
C19_RetriedAfterFailure ==
    /\ [][FailedBatchStays]_vars
    /\ [][FailedKeySubmittedAgain]_vars

\* The entries of Redis that this step removes.
Removed == DOMAIN webhook \ DOMAIN webhook'

\* The events of every batch whose task is running are in Redis.
InFlightStays ==
    \A id \in DOMAIN pool :
        pool[id].state = "running" => MembersOf(pool[id].batch) \subseteq DOMAIN webhook

\* C20: an entry leaves Redis only in the reap that saw a task succeed whose
\* batch holds it, or in the eviction of its key; the step that submits
\* tasks removes nothing, and the events of a batch are in Redis as long as
\* its task runs.
C20_RemovedOnlyByLoop ==
    /\ []InFlightStays
    /\ [][\A m \in Removed :
             \/ ReapStep /\ m \in SucceededMembers
             \/ EvictStep /\ m # Malformed /\ KeyOfMember(m) \in OverBudget]_vars
    /\ [][AdmitStep => webhook' = webhook]_vars

\* A cycle ended with an eviction while the task of another key was running
\* all along, its events still in Redis.
C20_Witness ==
    /\ pc = "retrieve"
    /\ evicted # {}
    /\ \E id \in DOMAIN pool :
          /\ pool[id].state = "running"
          /\ pool[id].batch # <<>>
          /\ MembersOf(pool[id].batch) \subseteq DOMAIN webhook

\* The places in the list given to group_messages of the entries of a key,
\* and the score a message was given with.
GivenOf(key) == {i \in 1..Len(entries) : KeyOfMember(entries[i][1]) = key}
GivenScore(msg) ==
    entries[CHOOSE i \in 1..Len(entries) : entries[i][1] = dumps(msg)][2]

\* The messages of a key in the list filter_messages returned.
ReturnedOf(key) ==
    LET OfKey(msg) == composite_key(msg) = key
    IN SelectSeq(filtered.value, OfKey)

\* C21: filter_messages returns the group of a key exactly when the newest
\* score of the group is strictly below cut, and then every entry of the
\* group once, by ascending score; of any other group it returns nothing,
\* not even the entries that are below cut.
C21_AllOrNothing ==
    filtered.returned =>
        \A key \in Keys :
            IF /\ GivenOf(key) # {}
               /\ \A i \in GivenOf(key) : entries[i][2] < cutoff
            THEN \E r \in {ReturnedOf(key)} :
                    /\ Len(r) = Cardinality(GivenOf(key))
                    /\ {dumps(r[j]) : j \in 1..Len(r)}
                         = {entries[i][1] : i \in GivenOf(key)}
                    /\ \A a, b \in 1..Len(r) :
                          a < b => GivenScore(r[a]) <= GivenScore(r[b])
            ELSE ReturnedOf(key) = <<>>

\* A group given newest entry first came back oldest first, and nothing
\* came back of another group whose entry has exactly the score cut.
C21_Witness ==
    /\ filtered.returned
    /\ \E key \in Keys : \E i, j \in GivenOf(key) :
          /\ i < j
          /\ entries[i][2] > entries[j][2]
          /\ Len(ReturnedOf(key)) = 2
          /\ dumps(ReturnedOf(key)[1]) = entries[j][1]
    /\ \E key \in Keys :
          /\ GivenOf(key) # {}
          /\ \A i \in GivenOf(key) : entries[i][2] = cutoff
          /\ ReturnedOf(key) = <<>>

\* The newest score among the entries of key in the scan of this cycle.
NewestScanned(key) ==
    CHOOSE score \in {snapshot[i][2] : i \in 1..Len(snapshot)} :
        /\ \E i \in 1..Len(snapshot) :
              /\ snapshot[i][1] \in ScannedEntries(key)
              /\ snapshot[i][2] = score
        /\ \A i \in 1..Len(snapshot) :
              snapshot[i][1] \in ScannedEntries(key) => snapshot[i][2] <= score

\* time_search returns the group of key in this cycle.
Eligible(key) == ScannedGroup(key) # <<>>

\* The scan of this cycle read Redis and every entry decodes.
Scanned == pc = "admit" /\ ~Undecodable(snapshot)

\* C22 as amended: a group is eligible in a cycle exactly when its newest
\* event is more than one debounce window old; a group whose newest event is
\* exactly one window old is not eligible in that cycle.
C22_EligibleAfterWindow ==
    Scanned =>
        \A key \in Keys :
            ScannedEntries(key) # {} =>
                (Eligible(key)
                    <=> now - NewestScanned(key) > CONSUMER_REDIS_TIME_INT)

\* The scan holds a group that is exactly one window old and has no task,
\* a slot is free, and time_search does not return the group.
C22_Witness ==
    /\ Scanned
    /\ SlotFree(tasks)
    /\ \E key \in Keys \ TaskKeys(tasks) :
          /\ ScannedEntries(key) # {}
          /\ now - NewestScanned(key) = CONSUMER_REDIS_TIME_INT
          /\ ~Eligible(key)

\* C22 as claimed: a group is eligible in a cycle exactly when its newest
\* event is at least one debounce window old.
C22_EligibleAtWindow ==
    Scanned =>
        \A key \in Keys :
            ScannedEntries(key) # {} =>
                (Eligible(key)
                    <=> now - NewestScanned(key) >= CONSUMER_REDIS_TIME_INT)

\* Two rows or messages of the same moment and the same sender.
SameSlot(a, b) == a.sent_at = b.sent_at /\ a.who_sent = b.who_sent

\* The history holds message i of the batch: its row, or the row that took
\* its moment and sender first (an older row of the chat or the row of an
\* earlier message of the batch that is no echo).
StoredOrTaken(messages, i, before, after) ==
    \/ RowOf(messages[i]) \in after
    \/ \E row \in before : SameSlot(row, RowOf(messages[i]))
    \/ \E j \in 1..(i - 1) :
          /\ SameSlot(RowOf(messages[j]), RowOf(messages[i]))
          /\ ~EchoOf(messages[j], before)
          /\ RowOf(messages[j]) \in after

\* The call answered with the test response and called nothing outside.
OnlyTestResponse(o) ==
    /\ o.response = "test"
    /\ ~o.graph_run
    /\ ~o.get_by_chat_id
    /\ ~o.send_message

\* C23: every human-operator message of a batch has use_llm = false, and
\* when the last message of a batch has use_llm = false, ChatBot.run stores
\* the messages of the batch that are no echo, returns the test response and
\* calls neither the LLM nor send_message, whatever the earlier messages of
\* the batch ask for.
C23_LastEventDecides ==
    [][RunStep =>
         /\ \A i \in 1..Len(delivered') :
               delivered'[i].who_sent = "hum" => ~delivered'[i].use_llm
         /\ ~LastOf(delivered').use_llm =>
               /\ OnlyTestResponse(out')
               /\ \A i \in 1..Len(delivered') :
                     ~EchoOf(delivered'[i], history) =>
                        StoredOrTaken(delivered', i, history, history')]_vars

\* The test response answered a batch whose first message, of the customer,
\* asks for the LLM and a WhatsApp send and whose last message is of the
\* operator; both are in the history.
C23_Witness ==
    /\ OnlyTestResponse(out)
    /\ Len(delivered) = 2
    /\ delivered[1].who_sent = "usr"
    /\ delivered[1].use_llm
    /\ delivered[1].send_to_wpp
    /\ delivered[2].who_sent = "hum"
    /\ RowOf(delivered[1]) \in history
    /\ RowOf(delivered[2]) \in history

\* C24: an entry of Redis is never changed in place: from the save that
\* wrote it until its removal it keeps the score of that save, whatever
\* producers save later, also a message with the same payload.
C24_ScoreNeverChanges ==
    [][\A m \in DOMAIN webhook \cap DOMAIN webhook' :
          webhook'[m] = webhook[m]]_vars

\* Every key with a count has a task, and that task ended with False.
CountedKeysFailed ==
    \A key \in DOMAIN tries :
        /\ tries[key] >= 1
        /\ key \in TaskKeys(tasks)
        /\ pool[TaskOf(tasks, key).fut].state = "false"

\* C25: a key with a count holds a task that ended in failure, so a reap
\* that sees the task of a key succeed finds the key without a count: the
\* branch `if composite_key in tries: tries[composite_key] = 4` is not taken.
C25_SuccessBranchDead ==
    /\ []CountedKeysFailed
    /\ [][ReapStep => \A key \in SucceededKeys : key \notin DOMAIN tries]_vars

\* A reap saw a task succeed while another key, counted twice or more,
\* still holds its failed task.
C25_Witness ==
    /\ pc = "evict"
    /\ done_tasks # <<>>
    /\ \E key \in DOMAIN tries :
          /\ tries[key] >= 2
          /\ key \notin SeqRange(done_tasks)
          /\ pool[TaskOf(tasks, key).fut].state = "false"

\* The tasks whose future ended the way a batch answered with the cooldown
\* advisory or the test response ends.
AnsweredTasks ==
    {i \in 1..Len(tasks) :
        pool[tasks[i].fut].state
            \in {process_message_and_send_to_client(answer) :
                    answer \in {"advisory", "test"}}}

\* C26: a batch that ChatBot.run answered with the cooldown advisory or the
\* test response ends its task with True; the reap that follows removes its
\* events from Redis, drops its task and list and leaves the key without a
\* count, and no later task is submitted with an event that is not in Redis.
C26_AnsweredBatchIsDone ==
    /\ \A answer \in {"advisory", "test"} :
          process_message_and_send_to_client(answer) = "true"
    /\ [][ReapStep =>
            \A i \in AnsweredTasks :
               /\ MembersOf(pool[tasks[i].fut].batch) \cap DOMAIN webhook' = {}
               /\ tasks[i].key \notin TaskKeys(tasks')
               /\ tasks[i].key \notin DOMAIN messages_dict'
               /\ tasks[i].key \notin DOMAIN tries']_vars
    /\ [][\A key \in Submitted :
             MembersOf(SubmittedBatch(key)) \subseteq DOMAIN webhook]_vars

\* The batch without the messages that echo the latest reply in h.
WithoutEchoes(messages, h) ==
    LET Real(message) == ~EchoOf(message, h)
    IN SelectSeq(messages, Real)

\* The moments of the operator messages of a batch that are no echo.
RealHumanTimes(messages, h) ==
    {SentAt(messages[i]) :
        i \in {x \in 1..Len(messages) : /\ messages[x].who_sent = "hum"
                                         /\ ~EchoOf(messages[x], h)}}

\* C27: a call of ChatBot.run that drops echoes leaves the cooldown of the
\* chat as if they had not been in the batch: the moments of the operator
\* messages in the history grow by those of the batch that are no echo, and
\* for every later reference time the cooldown is active exactly when it is
\* on the history the batch without its echoes leaves.
C27_EchoLeavesCooldown ==
    [][RunStep =>
         /\ HumanTimes(history')
              = HumanTimes(history) \cup RealHumanTimes(delivered', history)
         /\ \A reference_time \in Instants \cup {HUMAN_COOLDOWN, HUMAN_COOLDOWN + 1} :
               is_human_cooldown_active(history', reference_time, "usr")
                 = is_human_cooldown_active(
                      StoreLoop(history, WithoutEchoes(delivered', history), utcnow),
                      reference_time, "usr")]_vars

\* The LLM answered a customer message of a batch that also held an operator
\* message sent less than 5 minutes before it, which is not in the history:
\* it was dropped as an echo and started no cooldown.
C27_Witness ==
    /\ out.response = "llm"
    /\ \E i \in 1..Len(delivered) :
          /\ delivered[i].who_sent = "hum"
          /\ ~message_exists(history, SentAt(delivered[i]), "hum")
          /\ SentAt(LastOf(delivered)) - SentAt(delivered[i]) <= HUMAN_COOLDOWN
          /\ SentAt(LastOf(delivered)) >= SentAt(delivered[i])

\* No list comes near the length the fair loop follows.
ListsFit == \A key \in DOMAIN messages_dict : Len(messages_dict[key]) < LiveBatch

OneRowPerSlot(h) == \A a, b \in h : SameSlot(a, b) => a = b

\* C29: the history never holds two rows of the same moment and sender:
\* create skips a message whose moment and sender are stored already, also
\* when the stored row has another content, and ChatBot.run goes on with
\* the other messages of the batch: each of them that is no echo is stored
\* or finds its own moment and sender taken.
C29_OneRowPerSlot ==
    /\ []OneRowPerSlot(history)
    /\ [][RunStep =>
            \A i \in 1..Len(delivered') :
               /\ \A row \in history :
                     SameSlot(row, RowOf(delivered'[i])) =>
                        /\ row \in history'
                        /\ row.content # delivered'[i].content =>
                              RowOf(delivered'[i]) \notin history'
               /\ ~EchoOf(delivered'[i], history) =>
                     StoredOrTaken(delivered', i, history, history')]_vars

\* The operator's message of second 21 is delivered with blanks around its
\* text after the history stored it without them, and the customer's
\* message that follows it in the batch is stored.
C29_Witness ==
    /\ runs = 2
    /\ Len(delivered) = 2
    /\ delivered[1].who_sent = "hum"
    /\ delivered[1].content = " ola "
    /\ SentAt(delivered[1]) = 21
    /\ [sent_at |-> 21, who_sent |-> "hum", content |-> "ola"] \in history
    /\ RowOf(delivered[1]) \notin history
    /\ delivered[2].who_sent = "usr"
    /\ SentAt(delivered[2]) = 321
    /\ RowOf(delivered[2]) \in history

\* The three maps of processer as a cycle leaves them: every counted key
\* has a count of 1 to 3 and a task, every task has its list.
MapsNested(tr, t, mdict) ==
    /\ \A key \in DOMAIN tr : tr[key] \in 1..MaxTries
    /\ DOMAIN tr \subseteq TaskKeys(t)
    /\ TaskKeys(t) \subseteq DOMAIN mdict

\* C30: the eviction loop never looks up a key that tasks or messages_dict
\* does not hold, so every cycle that reaches it ends, and at the end of a
\* cycle every key of tries has a count of 1 to 3 and is a key of tasks, and
\* every key of tasks is a key of messages_dict.
C30_MapsNestedAtCycleEnd ==
    /\ [](err # "KeyError")
    /\ [][(pc = "evict" /\ pc' # "evict") =>
            /\ ~EvictKeyError(tries, tasks, messages_dict)
            /\ pc' = "retrieve"
            /\ MapsNested(tries', tasks', messages_dict')]_vars

\* A cycle ended with the eviction of one key while another key has failed
\* three times and keeps its count, its task and its list.
C30_Witness ==
    /\ pc = "retrieve"
    /\ evicted # {}
    /\ \E key \in DOMAIN tries :
          /\ tries[key] = MaxTries
          /\ key \in TaskKeys(tasks)
          /\ key \in DOMAIN messages_dict

====
